---- MODULE Spec2Model ----
(***************************************************************************)
(* Batch security analysis of JS/TS files (y3onk/Base109_MCP).             *)
(*                                                                         *)
(* Texts are sequences of tokens.  A token stands for a run of characters  *)
(* that no regular expression or parser of the program splits:             *)
(*   "{" "}" "[" "]" ":" "," "q" (a double quote) "1" (a digit)            *)
(*   " " (a blank) "nl" (a newline) "~~~" (a code fence of three backticks)                   *)
(*   "js" "on" (the label json is "js" followed by "on") "ts"              *)
(*   "fixed_code" "summary" "findings" (key names) "x" "y" (other text)    *)
(***************************************************************************)
EXTENDS Integers, Sequences, FiniteSets, TLC

\* ------------------------------------------------------------------------
\* Text helpers (Python str methods and the regular expressions of the code)
\* ------------------------------------------------------------------------

IsWs(c) == c \in {" ", "nl"}

\* smallest index >= from whose token is not whitespace (Len(t)+1 if none)
RECURSIVE SkipWs(_, _)
SkipWs(t, from) ==
    IF from <= Len(t) /\ IsWs(t[from]) THEN SkipWs(t, from + 1) ELSE from

\* greatest index <= to whose token is not whitespace (0 if none)
RECURSIVE SkipWsBack(_, _)
SkipWsBack(t, to) ==
    IF to >= 1 /\ IsWs(t[to]) THEN SkipWsBack(t, to - 1) ELSE to

\* str.strip()
Strip(t) == SubSeq(t, SkipWs(t, 1), SkipWsBack(t, Len(t)))

\* smallest index >= from holding token c, 0 if none
FindFirst(t, c, from) ==
    LET S == {i \in from..Len(t) : t[i] = c}
    IN  IF S = {} THEN 0 ELSE CHOOSE i \in S : \A j \in S : i <= j

\* greatest index holding token c, 0 if none
FindLast(t, c) ==
    LET S == {i \in 1..Len(t) : t[i] = c}
    IN  IF S = {} THEN 0 ELSE CHOOSE i \in S : \A j \in S : i >= j

\* re.search of the brace pattern: from the first "{" to the last "}";
\* the empty text stands for "no match" (a match is never empty).
BraceSpan(t) ==
    LET a == FindFirst(t, "{", 1)
        b == FindLast(t, "}")
    IN  IF a > 0 /\ b > a THEN SubSeq(t, a, b) ELSE << >>

\* The group of the json fence pattern when the match starts at fence i:
\* an optional json label, whitespace, "{", greedily up to the last
\* "}" that is followed by whitespace and a fence.
FenceGroupAt(t, i) ==
    LET j0 == IF i + 2 <= Len(t) /\ t[i + 1] = "js" /\ t[i + 2] = "on"
              THEN i + 3 ELSE i + 1
        j  == SkipWs(t, j0)
        K  == {k \in (j + 1)..Len(t) :
                  /\ t[k] = "}"
                  /\ LET e == SkipWs(t, k + 1) IN e <= Len(t) /\ t[e] = "~~~"}
    IN  IF t[i] = "~~~" /\ j <= Len(t) /\ t[j] = "{" /\ K # {}
        THEN SubSeq(t, j, CHOOSE k \in K : \A k2 \in K : k >= k2)
        ELSE << >>

\* re.search of the fence pattern: the leftmost fence where it matches
FenceSpan(t) ==
    LET S == {i \in 1..Len(t) : FenceGroupAt(t, i) # << >>}
    IN  IF S = {} THEN << >>
        ELSE FenceGroupAt(t, CHOOSE i \in S : \A j \in S : i <= j)

IsCodeLabel(c) == c \in {"js", "ts"}

\* re.findall of the code block pattern (a fence, an optional js/ts label,
\* whitespace, lazily up to the next fence): has the text a first code
\* block, and what is its group
HasCodeBlock(t) ==
    LET a == FindFirst(t, "~~~", 1)
    IN  a > 0 /\ FindFirst(t, "~~~", a + 1) > 0

FirstCodeBlock(t) ==
    LET a  == FindFirst(t, "~~~", 1)
        j0 == IF a + 1 <= Len(t) /\ IsCodeLabel(t[a + 1]) THEN a + 2 ELSE a + 1
        j  == SkipWs(t, j0)
        e  == FindFirst(t, "~~~", j)
    IN  SubSeq(t, j, e - 1)

\* ------------------------------------------------------------------------
\* JSON values and json.loads
\* A value is [type, s, items]: s holds the tokens of a string or number,
\* items the elements of a list (k empty) or the members of a dict, in
\* source order.
\* ------------------------------------------------------------------------

StrVal(toks)   == [type |-> "str",  s |-> toks,  items |-> << >>]
IntVal(toks)   == [type |-> "int",  s |-> toks,  items |-> << >>]
NullVal        == [type |-> "null", s |-> << >>, items |-> << >>]
ListVal(elems) == [type |-> "list", s |-> << >>, items |-> elems]
DictVal(mems)  == [type |-> "dict", s |-> << >>, items |-> mems]
EmptyDict      == DictVal(<< >>)

ParseFail == [ok |-> FALSE, val |-> NullVal, next |-> 0]
ParseOk(v, n) == [ok |-> TRUE, val |-> v, next |-> n]

At(t, i) == IF i >= 1 /\ i <= Len(t) THEN t[i] ELSE "eof"

\* a string literal: from a quote to the next quote, no raw newline inside
\* (json rejects control characters in strings)
ParseString(t, i) ==
    LET e == FindFirst(t, "q", i + 1)
    IN  IF At(t, i) = "q" /\ e > 0 /\ \A k \in (i + 1)..(e - 1) : t[k] # "nl"
        THEN ParseOk(StrVal(SubSeq(t, i + 1, e - 1)), e + 1)
        ELSE ParseFail

RECURSIVE DigitsEnd(_, _)
DigitsEnd(t, i) == IF At(t, i) = "1" THEN DigitsEnd(t, i + 1) ELSE i

ParseNumber(t, i, e) == ParseOk(IntVal(SubSeq(t, i, e - 1)), e)

RECURSIVE ParseValue(_, _)
RECURSIVE ParseElems(_, _, _)
RECURSIVE ParseMembers(_, _, _)

ParseValue(t, i) ==
    CASE At(t, i) = "q"    -> ParseString(t, i)
      [] At(t, i) = "1"    -> ParseNumber(t, i, DigitsEnd(t, i))
      [] At(t, i) = "null" -> ParseOk(NullVal, i + 1)
      [] At(t, i) = "["    ->
            LET j == SkipWs(t, i + 1)
            IN  IF At(t, j) = "]" THEN ParseOk(ListVal(<< >>), j + 1)
                ELSE ParseElems(t, j, << >>)
      [] At(t, i) = "{"    ->
            LET j == SkipWs(t, i + 1)
            IN  IF At(t, j) = "}" THEN ParseOk(EmptyDict, j + 1)
                ELSE ParseMembers(t, j, << >>)
      [] OTHER -> ParseFail

\* the elements of a list after "[" or ",", up to the closing "]"
ParseElems(t, i, acc) ==
    LET v == ParseValue(t, i)
        k == SkipWs(t, v.next)
        got == Append(acc, [k |-> << >>, v |-> v.val])
    IN  IF ~v.ok THEN ParseFail
        ELSE IF At(t, k) = "," THEN ParseElems(t, SkipWs(t, k + 1), got)
        ELSE IF At(t, k) = "]" THEN ParseOk(ListVal(got), k + 1)
        ELSE ParseFail

\* the members of an object after "{" or ",", up to the closing "}"
ParseMembers(t, i, acc) ==
    LET key == ParseString(t, i)
        c   == SkipWs(t, key.next)
        v   == ParseValue(t, SkipWs(t, c + 1))
        k   == SkipWs(t, v.next)
        got == Append(acc, [k |-> key.val.s, v |-> v.val])
    IN  IF ~key.ok \/ At(t, c) # ":" THEN ParseFail
        ELSE IF ~v.ok THEN ParseFail
        ELSE IF At(t, k) = "," THEN ParseMembers(t, SkipWs(t, k + 1), got)
        ELSE IF At(t, k) = "}" THEN ParseOk(DictVal(got), k + 1)
        ELSE ParseFail

\* json.loads(text): one value with optional whitespace around it
WholeText(t, r) ==
    IF r.ok /\ SkipWs(t, r.next) = Len(t) + 1 THEN r ELSE ParseFail

JsonLoads(t) == WholeText(t, ParseValue(t, SkipWs(t, 1)))

\* dict.get(key, default): the last member named key wins
DictHas(d, key) == \E i \in 1..Len(d.items) : d.items[i].k = <<key>>

DictGet(d, key, default) ==
    IF DictHas(d, key)
    THEN LET S == {i \in 1..Len(d.items) : d.items[i].k = <<key>>}
         IN  d.items[CHOOSE i \in S : \A j \in S : i >= j].v
    ELSE default

\* bool(value)
Truthy(v) ==
    CASE v.type = "str"  -> v.s # << >>
      [] v.type = "int"  -> TRUE
      [] v.type = "null" -> FALSE
      [] OTHER           -> v.items # << >>

\* repr(value) and str(value), token by token
RECURSIVE PyRepr(_)
RECURSIVE ReprItems(_, _, _)

ReprItems(items, i, isDict) ==
    IF i > Len(items) THEN << >>
    ELSE (IF i > 1 THEN <<",", " ">> ELSE << >>)
         \o (IF isDict THEN <<"'">> \o items[i].k \o <<"'", ":", " ">> ELSE << >>)
         \o PyRepr(items[i].v)
         \o ReprItems(items, i + 1, isDict)

PyRepr(v) ==
    CASE v.type = "str"  -> <<"'">> \o v.s \o <<"'">>
      [] v.type = "int"  -> v.s
      [] v.type = "null" -> <<"None">>
      [] v.type = "list" -> <<"[">> \o ReprItems(v.items, 1, FALSE) \o <<"]">>
      [] OTHER           -> <<"{">> \o ReprItems(v.items, 1, TRUE) \o <<"}">>

PyStr(v) == IF v.type = "str" THEN v.s ELSE PyRepr(v)

\* ------------------------------------------------------------------------
\* Response normalizer, command-line tool (src/mcp/fix_vulnerable_code.py)
\* ------------------------------------------------------------------------

\* the value of a parse, {} when it failed
ValueOrEmpty(r) == IF r.ok THEN r.val ELSE EmptyDict

\* "Last resort: extract the first JSON object"
ParseBraceSpan(obj) ==
    IF obj # << >> THEN ValueOrEmpty(JsonLoads(obj)) ELSE EmptyDict

\* json.loads(text), on an exception the brace span, else {}
DirectOrBrace(text, direct) ==
    IF direct.ok THEN direct.val ELSE ParseBraceSpan(BraceSpan(text))

LoadsOrBrace(text) == DirectOrBrace(text, JsonLoads(text))

\* "Remove common code-fence wrappers"
Unfence(stripped, fence) == IF fence # << >> THEN Strip(fence) ELSE stripped

UnfenceStripped(stripped) == Unfence(stripped, FenceSpan(stripped))

\* _coerce_json: the parsed value, of whatever JSON type the text holds
CoerceJson(text0) == LoadsOrBrace(UnfenceStripped(Strip(text0)))

\* "if not fixed_code and content": the first code block, else the whole text
CodeFallback(content) ==
    IF HasCodeBlock(content) THEN Strip(FirstCodeBlock(content))
    ELSE Strip(content)

Raised(msg) ==
    [raised |-> TRUE, error |-> msg, fixed_code |-> << >>, summary |-> << >>,
     findings |-> << >>]

\* [str(item) for item in findings_raw] if it is a list, else []
RECURSIVE StrEach(_, _)
StrEach(items, i) ==
    IF i > Len(items) THEN << >>
    ELSE <<PyStr(items[i].v)>> \o StrEach(items, i + 1)

\* "if not fixed_code and content" on a string
FixedOrFallback(fixed, content) ==
    IF fixed = << >> /\ content # << >> THEN CodeFallback(content) ELSE fixed

\* [str(item) ...] if isinstance(findings_raw, list) else []
FindingsOf(findingsRaw) ==
    IF findingsRaw.type = "list" THEN StrEach(findingsRaw.items, 1) ELSE << >>

\* lines 179-199 of analyze_and_fix_with_prompt: payload.get on a value
\* that is not a dict raises AttributeError
FieldsCli(content, payload) ==
    IF payload.type # "dict" THEN Raised("AttributeError")
    ELSE [raised |-> FALSE, error |-> "",
          fixed_code |->
              FixedOrFallback(PyStr(DictGet(payload, "fixed_code", StrVal(<< >>))),
                              content),
          summary |-> PyStr(DictGet(payload, "summary", StrVal(<< >>))),
          findings |-> FindingsOf(DictGet(payload, "findings", ListVal(<< >>)))]

\* lines 178-199: _coerce_json, then the fields
NormalizeCli(content) == FieldsCli(content, CoerceJson(content))

\* ------------------------------------------------------------------------
\* Response normalizer, MCP server (src/mcp_server.py, analyze_code)
\* The fields keep the JSON values as parsed.
\* ------------------------------------------------------------------------

RaisedSrv(msg) ==
    [raised |-> TRUE, error |-> msg, fixed_code |-> NullVal,
     summary |-> NullVal, findings |-> NullVal, severity |-> NullVal,
     vulnerability_type |-> NullVal]

\* lines 245-257: json.loads, else the brace span, else {}
ParseSrv(content) == LoadsOrBrace(content)

\* "if not fixed_code and content" on a JSON value
FixedOrFallbackSrv(fixed, content) ==
    IF ~Truthy(fixed) /\ content # << >> THEN StrVal(CodeFallback(content))
    ELSE fixed

\* lines 259-276: result_data.get on a value that is not a dict raises
FieldsSrv(content, data) ==
    IF data.type # "dict" THEN RaisedSrv("AttributeError")
    ELSE [raised |-> FALSE, error |-> "",
          fixed_code |->
              FixedOrFallbackSrv(DictGet(data, "fixed_code", StrVal(<< >>)), content),
          summary |-> DictGet(data, "summary", StrVal(<< >>)),
          findings |-> DictGet(data, "findings", ListVal(<< >>)),
          severity |-> DictGet(data, "severity", StrVal(<<"Medium">>)),
          vulnerability_type |->
              DictGet(data, "vulnerability_type", StrVal(<<"Unknown">>))]

NormalizeSrv(content) == FieldsSrv(content, ParseSrv(content))

\* "response.choices[0].message.content or '{}'"
ContentOf(body) == IF body = << >> THEN <<"{", "}">> ELSE body

\* ------------------------------------------------------------------------
\* Prompt filling (fill_prompt_placeholders and analyze_and_fix_with_prompt
\* of the command-line tool, analyze_code of the server). Braces are single
\* tokens: the marker {} is "{" followed by "}", the marker {CODE HERE}
\* is "{", "CODE HERE", "}"
\* ------------------------------------------------------------------------

CodeMarker  == <<"{", "CODE HERE", "}">>
BareMarker  == <<"{", "}">>
CliPathMark == <<"/", "server", ".js">>
SrvPathMark == <<"/", "index", ".js">>

\* does old occur in s at position i
MatchesAt(s, old, i) ==
    /\ i + Len(old) - 1 <= Len(s)
    /\ SubSeq(s, i, i + Len(old) - 1) = old

\* "sub in s"
Contains(s, sub) == \E i \in 1..(Len(s) + 1) : MatchesAt(s, sub, i)

\* s.replace(old, new) for a non-empty old: one scan from the left over
\* the non-overlapping occurrences
RECURSIVE ReplaceFrom(_, _, _, _)
ReplaceFrom(s, old, new, i) ==
    IF i > Len(s) THEN << >>
    ELSE IF MatchesAt(s, old, i)
    THEN new \o ReplaceFrom(s, old, new, i + Len(old))
    ELSE <<s[i]>> \o ReplaceFrom(s, old, new, i + 1)

Replace(s, old, new) == ReplaceFrom(s, old, new, 1)

\* fill_prompt_placeholders, lines 98-114, called without cwe_info
FillPromptPlaceholders(prompt, filePath, code) ==
    LET filled1 == Replace(prompt, CodeMarker, code)
        filled2 == Replace(filled1, BareMarker, code)
    IN  Replace(filled2, CliPathMark, filePath)

\* lines 140-152: the user content of the request
UserContent(prompt, filePath, code) ==
    IF Contains(prompt, CodeMarker) \/ Contains(prompt, BareMarker)
    THEN FillPromptPlaceholders(prompt, filePath, code)
    ELSE prompt \o <<"nl", "nl">> \o code

\* lines 217-220 of analyze_code: the filled prompt is the user content
FilledPrompt(template, filePath, code) ==
    LET filled1 == Replace(template, CodeMarker, code)
        filled2 == Replace(filled1, BareMarker, code)
    IN  Replace(filled2, SrvPathMark, filePath)

\* ------------------------------------------------------------------------
\* Paths (pathlib.Path on token sequences; "/" separates the parts and the
\* extensions ".js" and ".ts" are single tokens)
\* ------------------------------------------------------------------------

\* Path(p).parent with its trailing separator ("" for a bare file name)
PathParent(p) == SubSeq(p, 1, FindLast(p, "/"))

PathName(p) == SubSeq(p, FindLast(p, "/") + 1, Len(p))

\* Path(p).suffix: the last extension of the name, unless the name starts
\* with it
PathSuffix(p) ==
    LET n == PathName(p)
    IN  IF Len(n) > 1 /\ n[Len(n)] \in {".js", ".ts"} THEN <<n[Len(n)]>>
        ELSE << >>

PathStem(p) ==
    LET n == PathName(p)
    IN  SubSeq(n, 1, Len(n) - Len(PathSuffix(p)))

\* an output name that leaves out the index of the prompt
DerivedPathWithoutIndex(p, n) ==
    PathParent(p) \o PathStem(p) \o <<"_prompt">> \o PathSuffix(p)

\* f"{base_name.stem}_prompt_{i+1}{base_name.suffix}" under the parent
DerivedPath(p, n) ==
    PathParent(p) \o PathStem(p) \o <<"_prompt_", ToString(n)>> \o PathSuffix(p)

\* base_dir / file_path
Under(dir, p) == <<dir, "/">> \o p

\* the directory holding a location
DirOf(loc) == SubSeq(loc, 1, FindLast(loc, "/") - 1)

Min(a, b) == IF a <= b THEN a ELSE b

\* prompt[:100] + "..." if len(prompt) > 100 else prompt
PreviewLen == 100
Preview(prompt) ==
    IF Len(prompt) > PreviewLen
    THEN SubSeq(prompt, 1, PreviewLen) \o <<"...">>
    ELSE prompt

\* ------------------------------------------------------------------------
\* Raw response texts the completion endpoint may return
\* ------------------------------------------------------------------------

Member(key, valueToks) == <<"q", key, "q", ":">> \o valueToks
Quoted(toks) == <<"q">> \o toks \o <<"q">>

ObjCode     == <<"{">> \o Member("fixed_code", Quoted(<<"x">>)) \o <<",", " ">>
               \o Member("summary", Quoted(<<"y">>)) \o <<"}">>
ObjNoCode   == <<"{">> \o Member("summary", Quoted(<<"y">>)) \o <<"}">>
ObjFindings == <<"{">> \o Member("findings", <<"[">> \o Quoted(<<"x">>)
               \o <<",", "1", "]">>) \o <<",">>
               \o Member("fixed_code", Quoted(<<"x", " ", "y">>)) \o <<"}">>
ObjNull     == <<"{">> \o Member("fixed_code", <<"null">>) \o <<"}">>
ObjBrace    == <<"{">> \o Member("fixed_code", Quoted(<<"}", "x">>)) \o <<"}">>
ObjEmpty    == <<"{", "}">>
ObjJustCode == <<"{">> \o Member("fixed_code", Quoted(<<"x">>)) \o <<"}">>
ObjBlank    == <<"{">> \o Member("fixed_code", Quoted(<< >>)) \o <<"}">>
ObjSevere   == <<"{">> \o Member("severity", Quoted(<<"Severe">>)) \o <<",">>
               \o Member("fixed_code", Quoted(<<"x">>)) \o <<"}">>
JsonList    == <<"[", "1", "]">>
JsonNum     == <<"1">>
JsonStr     == Quoted(<<"x">>)
Prose       == <<"x", " ", "y">>
BlankText   == <<" ", "nl">>
NoText      == << >>

CoreTexts ==
    {ObjCode, ObjNoCode, ObjFindings, ObjNull, ObjBrace, ObjEmpty, ObjJustCode,
     ObjBlank, ObjSevere, JsonList, JsonNum, JsonStr, Prose, BlankText, NoText}

Fenced(label, body) == <<"~~~">> \o label \o <<"nl">> \o body \o <<"nl", "~~~">>

FenceLabels == {<< >>, <<"js", "on">>, <<"js">>}

\* how many lines of prose may precede the core of a response
MaxProse == 1

RECURSIVE ProseLines(_)
ProseLines(n) == IF n = 0 THEN << >> ELSE <<"x", "nl">> \o ProseLines(n - 1)

\* what may follow the core of a response
Trailers == {<< >>, <<"nl", "x">>}

RawTexts ==
    {ProseLines(n) \o w \o post :
        n \in 0..MaxProse,
        w \in CoreTexts \cup {Fenced(l, c) : l \in FenceLabels, c \in CoreTexts},
        post \in Trailers}

\* ------------------------------------------------------------------------
\* The batch run: inputs
\* ------------------------------------------------------------------------

\* bounds of the batch model
MaxUnits   == 2
MaxPrompts == 2
MaxLimit   == 2
\* the (file, prompt) pairs a batch has at most
MaxPairs   == 4

\* the source folder holds these files; SrcEmpty is an empty file
SrcA      == [path |-> <<"a", ".js">>, content |-> <<"code">>]
SrcSuffix == [path |-> <<"a", "_prompt_", "1", ".js">>, content |-> <<"old">>]
SrcEmpty  == [path |-> <<"d", "/", "b", ".ts">>, content |-> << >>]
UnitKinds == {SrcA, SrcSuffix, SrcEmpty}

\* the order in which the source provider walks the folder
Folder == <<SrcA, SrcEmpty, SrcSuffix>>

\* the unit lists a source provider may return: up to MaxUnits files of the
\* folder, in the order of the walk
UnitLists ==
    {u \in UNION {[1..n -> UnitKinds] : n \in 0..MaxUnits} :
        \E pos \in [DOMAIN u -> DOMAIN Folder] :
            /\ \A i \in DOMAIN u : u[i] = Folder[pos[i]]
            /\ \A i, j \in DOMAIN u : i < j => pos[i] < pos[j]}

\* the k-th prompt file of the catalog (sorted by name)
PromptAt(k) ==
    [name |-> "p" \o ToString(k),
     content |-> IF k % 2 = 1 THEN <<"Fix", ":", "{CODE HERE}">>
                 ELSE <<"Check", ToString(k)>>]

PromptLists == {[k \in 1..n |-> PromptAt(k)] : n \in 0..MaxPrompts}

\* the three batch loops of the repository
Variants == {"cli", "server", "mcp"}

\* the prompts directory exists or it does not
Catalogs == {"present", "missing"}

\* the environment of a run: local or GitHub mode, are OPENAI_API_KEY and
\* GITHUB_TOKEN set, does fetching or reading the files raise
Envs == [mode : {"local", "github"}, key : BOOLEAN, token : BOOLEAN,
         fetch : {"ok", "fails"}]

\* a credential the run requires is missing: the API key, or the token in
\* GitHub mode
CredentialMissing(env) == ~env.key \/ (env.mode = "github" /\ ~env.token)

\* the output directory is the source folder itself or another folder
OutDirs == {"src", "out"}

\* what the endpoint answers in a batch run, and the errors a request raises
Bodies == {ObjCode, Fenced(<< >>, BlankText), JsonList}
Errors == {"timeout", "refused"}

\* how a write of a fixed-code file ends: done, mkdir raises, or write_text
\* raises after it opened (created or truncated) the file
WriteEnds == {"ok", "mkdir_fails", "write_fails"}

VARIABLES
    cfg,        \* the inputs of the run: variant, files, prompts, maxFiles,
                \* dryRun, outDir
    pc,         \* where the run is
    fi,         \* index of the unit the loop is at
    pi,         \* index of the prompt the loop is at
    processed,  \* units processed so far (the counter of the cli loop)
    cur,        \* file_results: the outcomes of the current unit
    results,    \* the file reports built so far
    err1,       \* the error the structured request of the last requested
                \* pair raised ("" if it returned)
    att,        \* how many completion requests the last requested pair caused
    last,       \* the last completion request sent
    disk,       \* location -> content of the files on disk
    dirs,       \* directories created by the run
    trace,      \* history: one entry per pair, what was normalized and
                \* whether its fixed code was written
    report,     \* the report printed at the end
    exitCode,   \* the exit code of the run (-1 while running)
    credMissing,\* history: did the environment lack a required credential
    stopped,    \* history: why the run ended before its loop ("" if not)
    inflight,   \* completion requests sent and not yet answered
    raw,        \* normalizer check: the raw response text
    normal,     \* normalizer check: the normalizer's results
    fill,       \* prompt filling check: template, path, code and what the
                \* two loops send to the endpoint for them
    client      \* MCP client check: the SecurityMCPClient object, its
                \* session and what run_mcp_analysis did with it

vars == <<cfg, pc, fi, pi, processed, cur, results, err1, att, last, disk, dirs,
          trace, report, exitCode, credMissing, stopped, inflight, raw, normal, fill, client>>

batchVars == <<cfg, pc, fi, pi, processed, cur, results, err1, att, last, disk,
               dirs, trace, report, exitCode, credMissing, stopped, inflight>>

\* the files of the source folder as they are on disk before the run
InitialDisk(files) ==
    [loc \in {Under("src", files[i].path) : i \in DOMAIN files} |->
        LET i == CHOOSE i \in DOMAIN files : Under("src", files[i].path) = loc
        IN  files[i].content]

NoRequest == [f |-> 0, p |-> 0, mode |-> "none"]

NoReport == [kind |-> "none", results |-> << >>]

InitBatch ==
    /\ cfg \in [variant : Variants, files : UnitLists, prompts : PromptLists,
                catalog : Catalogs, maxFiles : 0..MaxLimit, dryRun : BOOLEAN,
                outDir : OutDirs]
    \* a prompts directory that does not exist holds no prompt
    /\ cfg.catalog = "missing" => cfg.prompts = << >>
    \* the server's batch_analyze takes no output directory and writes nothing
    /\ cfg.variant = "server" => cfg.dryRun /\ cfg.outDir = "out"
    /\ Len(cfg.files) * Len(cfg.prompts) <= MaxPairs
    /\ pc = "start"
    /\ fi = 1
    /\ pi = 1
    /\ processed = 0
    /\ cur = << >>
    /\ results = << >>
    /\ err1 = ""
    /\ att = 0
    /\ last = NoRequest
    /\ disk = InitialDisk(cfg.files)
    /\ dirs = {}
    /\ trace = << >>
    /\ report = NoReport
    /\ exitCode = -1
    /\ credMissing = FALSE
    /\ stopped = ""
    /\ inflight = 0

\* ------------------------------------------------------------------------
\* The batch run: the loops
\* ------------------------------------------------------------------------

Unit == cfg.files[fi]
Prompt == cfg.prompts[pi]

\* directories that exist before the run: those of the source files
ExistingDirs == {DirOf(loc) : loc \in DOMAIN InitialDisk(cfg.files)}

\* where the command-line tool writes the fixed code of pair (path, n)
OutputLoc(path, n) == Under(cfg.outDir, DerivedPath(path, n))

PutFile(d, loc, content) ==
    [l \in DOMAIN d \cup {loc} |-> IF l = loc THEN content ELSE d[l]]

\* does loading the prompts raise: both loaders raise when the directory
\* does not exist, only that of the command-line tool when it holds no prompt
LoadFails ==
    \/ cfg.catalog = "missing"
    \/ cfg.variant = "cli" /\ cfg.prompts = << >>

\* the run ends before its loop
EndBefore(why, code, rep) ==
    /\ stopped' = why
    /\ exitCode' = code
    /\ report' = rep
    /\ pc' = "done"

\* lines 264-303 of the command-line tool
StartCli(env) ==
    IF ~env.key \/ (env.mode = "github" /\ ~env.token)
    THEN EndBefore("credentials", 2, NoReport)
    ELSE IF env.fetch = "fails" THEN EndBefore("fetch", 1, NoReport)
    ELSE IF cfg.files = << >>
    THEN EndBefore("no_files", 0, [kind |-> "no_files", results |-> << >>])
    ELSE IF LoadFails THEN EndBefore("prompts", 1, NoReport)
    ELSE pc' = "file" /\ UNCHANGED <<stopped, report, exitCode>>

\* main of the wrapper, lines 158-161, and the tools the workflow calls
\* before its loop: the server answers an exception of the fetcher or of
\* the loader with the text "Error: ...", the client raises on that text
\* and main returns 1
StartMcp(env) ==
    IF ~env.key THEN EndBefore("credentials", 2, NoReport)
    ELSE IF (env.mode = "github" /\ ~env.token) \/ env.fetch = "fails"
    THEN EndBefore("fetch", 1, NoReport)
    ELSE IF LoadFails THEN EndBefore("prompts", 1, NoReport)
    ELSE pc' = "file" /\ UNCHANGED <<stopped, report, exitCode>>

\* batch_analyze of the server, lines 432-450 and 478-480
StartServer(env) ==
    IF (env.mode = "github" /\ ~env.token) \/ env.fetch = "fails"
    THEN EndBefore("fetch", 0, [kind |-> "error", results |-> << >>])
    ELSE IF LoadFails
    THEN EndBefore("prompts", 0, [kind |-> "error", results |-> << >>])
    ELSE pc' = "file" /\ UNCHANGED <<stopped, report, exitCode>>

StartIn(env) ==
    /\ pc = "start"
    /\ credMissing' = CredentialMissing(env)
    /\ CASE cfg.variant = "cli" -> StartCli(env)
         [] cfg.variant = "mcp" -> StartMcp(env)
         [] OTHER -> StartServer(env)
    /\ UNCHANGED <<cfg, inflight, fi, pi, processed, cur, results, err1, att, last, disk,
                   dirs, trace, raw, normal, fill, client>>

Start == \E env \in Envs : StartIn(env)

\* a loop that does not go through the files when there is no prompt
LoopOverWhenNoPrompts ==
    \/ cfg.prompts = << >>
    \/ IF cfg.variant = "cli"
       THEN fi > Len(cfg.files) \/ processed >= cfg.maxFiles
       ELSE fi > Min(Len(cfg.files), cfg.maxFiles)

\* does the loop stop before unit fi
LoopOver ==
    IF cfg.variant = "cli"
    THEN fi > Len(cfg.files) \/ processed >= cfg.maxFiles
    ELSE fi > Min(Len(cfg.files), cfg.maxFiles)

\* "if not file_path or not content: continue" (command-line tool only)
SkipsUnit ==
    cfg.variant = "cli" /\ (Unit.path = << >> \/ Unit.content = << >>)

SkipUnit ==
    /\ pc = "file"
    /\ ~LoopOver
    /\ SkipsUnit
    /\ fi' = fi + 1
    /\ UNCHANGED <<cfg, credMissing, stopped, inflight, pc, pi, processed, cur, results, err1, att, last, disk,
                   dirs, trace, report, exitCode, raw, normal, fill, client>>

BeginUnit ==
    /\ pc = "file"
    /\ ~LoopOver
    /\ ~SkipsUnit
    /\ cur' = << >>
    /\ pi' = 1
    /\ pc' = "prompt"
    /\ UNCHANGED <<cfg, credMissing, stopped, inflight, fi, processed, results, err1, att, last, disk, dirs, trace,
                   report, exitCode, raw, normal, fill, client>>

\* {"path": ..., "prompt_results": file_results} in the command-line tool,
\* {"file_path": ..., "analyses": file_results} in the service loops
FileReport(path, outcomes) ==
    IF cfg.variant = "cli" THEN [path |-> path, prompt_results |-> outcomes]
    ELSE [file_path |-> path, analyses |-> outcomes]

EndUnit ==
    /\ pc = "prompt"
    /\ pi > Len(cfg.prompts)
    /\ results' = Append(results, FileReport(Unit.path, cur))
    /\ processed' = processed + 1
    /\ fi' = fi + 1
    /\ pc' = "file"
    /\ UNCHANGED <<cfg, credMissing, stopped, inflight, pi, cur, err1, att, last, disk, dirs, trace, report,
                   exitCode, raw, normal, fill, client>>

\* the end of the loop: the command-line tool and the server print the
\* report, the MCP wrapper goes on to save the results
EndLoop ==
    /\ pc = "file"
    /\ LoopOver
    /\ IF cfg.variant = "mcp"
       THEN /\ pc' = "save"
            /\ UNCHANGED <<report, exitCode>>
       ELSE /\ report' = [kind |-> "report", results |-> results]
            /\ exitCode' = 0
            /\ pc' = "done"
    /\ UNCHANGED <<cfg, credMissing, stopped, inflight, fi, pi, processed, cur, results, err1, att, last, disk,
                   dirs, trace, raw, normal, fill, client>>

\* ------------------------------------------------------------------------
\* One (file, prompt) pair
\* ------------------------------------------------------------------------

\* the directories mkdir(parents=True) makes for a location, if missing
ParentDirs(loc) == {SubSeq(loc, 1, i - 1) : i \in {k \in 1..Len(loc) : loc[k] = "/"}}

\* the outcome dictionaries of the command-line tool (lines 334-346)
CliSuccess(n, r, prompt) ==
    [prompt_index |-> n, summary |-> r.summary, findings |-> r.findings,
     written |-> ~cfg.dryRun, prompt_preview |-> Preview(prompt.content)]

\* a failure entry that counts the prompts from 0
CliFailureZeroBased(n, msg, prompt) ==
    [prompt_index |-> n - 1, error |-> msg,
     prompt_preview |-> Preview(prompt.content)]

CliFailure(n, msg, prompt) ==
    [prompt_index |-> n, error |-> msg, prompt_preview |-> Preview(prompt.content)]

\* asdict(SecurityAnalysisResult) and the error entry of the service loops
SrvSuccess(path, r, prompt) ==
    [file_path |-> path, vulnerability_type |-> r.vulnerability_type,
     severity |-> r.severity, description |-> r.summary,
     fixed_code |-> r.fixed_code, findings |-> r.findings,
     prompt_used |-> Preview(prompt.content)]

\* an error entry that also carries a description
SrvFailureWithDescription(msg, prompt) ==
    [error |-> msg, prompt_name |-> prompt.name, description |-> << >>]

SrvFailure(msg, prompt) == [error |-> msg, prompt_name |-> prompt.name]

\* the message the loop sees: the MCP client parses the server's
\* "Error: ..." text as JSON and raises the decoder's error instead
SeenMessage(msg) == IF cfg.variant = "mcp" THEN "Expecting value" ELSE msg

\* a failure entry that carries the error of the structured request
FailureOutcomeFirstError(msg) ==
    IF cfg.variant = "cli" THEN CliFailure(pi, err1, Prompt)
    ELSE SrvFailure(SeenMessage(err1), Prompt)

FailureOutcome(msg) ==
    IF cfg.variant = "cli" THEN CliFailure(pi, msg, Prompt)
    ELSE SrvFailure(SeenMessage(msg), Prompt)

\* history entry of a pair: did it succeed, the fixed code of its result
\* (empty if there is none), was its file written, what raised, the message
\* of the exception that reached the loop
TraceEntry(ok, fixed, wrote, cause, msg) ==
    [path |-> Unit.path, n |-> pi, ok |-> ok, code |-> fixed # << >>,
     fixed |-> fixed, wrote |-> wrote, cause |-> cause, msg |-> msg]

\* append an outcome to file_results and go on with the next prompt
Record(outcome, entry) ==
    /\ cur' = Append(cur, outcome)
    /\ trace' = Append(trace, entry)
    /\ pi' = pi + 1
    /\ pc' = "prompt"
    /\ UNCHANGED <<cfg, credMissing, stopped, fi, processed, results, report, exitCode, raw, normal, fill, client>>

\* an except clause that ends the run with exit code 1
OnPairErrorAborts(msg, fixed, cause) ==
    /\ pc' = "done"
    /\ exitCode' = 1
    /\ UNCHANGED <<cfg, credMissing, stopped, fi, pi, processed, cur, results, trace, report, raw,
                   normal, fill, client>>

\* "except Exception as e": the pair becomes an error entry, the loop goes on
OnPairError(msg, fixed, cause) ==
    Record(FailureOutcome(msg),
           TraceEntry(FALSE, fixed, FALSE, cause, SeenMessage(msg)))

\* a test that forgets args.dry_run
WritesFixedInDryRun(r) == r.fixed_code # << >>

\* lines 324-332: is the fixed code of result r written
WritesFixed(r) == r.fixed_code # << >> /\ ~cfg.dryRun

\* ensure_output_path and write_text, ending as w: an exception of either
\* reaches the except clause of the pair
WriteFixed(r, loc, w) ==
    /\ dirs' = IF w = "mkdir_fails" THEN dirs
               ELSE dirs \cup (ParentDirs(loc) \ ExistingDirs)
    /\ disk' = CASE w = "ok" -> PutFile(disk, loc, r.fixed_code)
                 [] w = "write_fails" -> PutFile(disk, loc, << >>)
                 [] OTHER -> disk
    /\ IF w = "ok"
       THEN Record(CliSuccess(pi, r, Prompt),
                   TraceEntry(TRUE, r.fixed_code, TRUE, "none", ""))
       ELSE OnPairError("OSError", r.fixed_code, w)

\* lines 323-346 of the command-line tool, with the result r of
\* analyze_and_fix_with_prompt
CliResult(r) ==
    IF r.raised
    THEN /\ OnPairError(r.error, << >>, "normalize")
         /\ UNCHANGED <<disk, dirs>>
    ELSE IF WritesFixed(r)
    THEN \E w \in WriteEnds : WriteFixed(r, OutputLoc(Unit.path, pi), w)
    ELSE /\ Record(CliSuccess(pi, r, Prompt),
                   TraceEntry(TRUE, r.fixed_code, FALSE, "none", ""))
         /\ UNCHANGED <<disk, dirs>>

\* the text of a fixed_code value the wrapper would write: that of a
\* truthy value (a string's characters, the repr of any other value)
FixedText(v) == IF Truthy(v) THEN PyStr(v) ELSE << >>

\* the service loops with the result r of analyze_code; they write nothing
\* while they run
SrvResult(r) ==
    /\ IF r.raised
       THEN OnPairError(r.error, << >>, "normalize")
       ELSE Record(SrvSuccess(Unit.path, r, Prompt),
                   TraceEntry(TRUE, FixedText(r.fixed_code), FALSE, "none", ""))
    /\ UNCHANGED <<disk, dirs>>

\* what the two normalizers make of each body the endpoint answers
CliResults == [body \in Bodies |-> NormalizeCli(ContentOf(body))]
SrvResults == [body \in Bodies |-> NormalizeSrv(ContentOf(body))]

\* the rest of the pair once the request returned body
Complete(body) ==
    IF cfg.variant = "cli" THEN CliResult(CliResults[body])
    ELSE SrvResult(SrvResults[body])

\* the completion call blocks until the endpoint answers: the request is
\* in flight from the step that sends it to the step in which it returns
\* or raises

\* the first request, with response_format json_object
RequestStructured ==
    /\ pc = "prompt"
    /\ pi <= Len(cfg.prompts)
    /\ att' = 1
    /\ last' = [f |-> fi, p |-> pi, mode |-> "json"]
    /\ inflight' = inflight + 1
    /\ err1' = ""
    /\ pc' = "await_json"
    /\ UNCHANGED <<cfg, credMissing, stopped, fi, pi, processed, cur, results,
                   disk, dirs, trace, report, exitCode, raw, normal, fill, client>>

\* a first request that is sent again when it raises
ReturnStructuredRetries ==
    /\ pc = "await_json"
    /\ inflight' = inflight - 1
    /\ UNCHANGED <<att, last>>
    /\ \/ \E b \in Bodies : Complete(b) /\ err1' = ""
       \/ \E e \in Errors :
            /\ err1' = e
            /\ pc' = "prompt"
            /\ UNCHANGED <<cfg, credMissing, stopped, fi, pi, processed, cur,
                           results, disk, dirs, trace, report, exitCode, raw,
                           normal, fill, client>>

\* the first request returns a body, or raises and the except clause is
\* entered
ReturnStructured ==
    /\ pc = "await_json"
    /\ inflight' = inflight - 1
    /\ UNCHANGED <<att, last>>
    /\ \/ \E b \in Bodies : Complete(b) /\ err1' = ""
       \/ \E e \in Errors :
            /\ err1' = e
            /\ pc' = "fallback"
            /\ UNCHANGED <<cfg, credMissing, stopped, fi, pi, processed, cur,
                           results, disk, dirs, trace, report, exitCode, raw,
                           normal, fill, client>>

\* a fallback sent while the first request is still in flight
RequestPlainWithoutWaiting ==
    /\ pc = "await_json"
    /\ att' = att + 1
    /\ last' = [f |-> fi, p |-> pi, mode |-> "plain"]
    /\ inflight' = inflight + 1
    /\ pc' = "await_plain"
    /\ UNCHANGED <<cfg, credMissing, stopped, fi, pi, processed, cur, results,
                   err1, disk, dirs, trace, report, exitCode, raw, normal, fill, client>>

\* the fallback request without response_format
RequestPlain ==
    /\ pc = "fallback"
    /\ att' = att + 1
    /\ last' = [f |-> fi, p |-> pi, mode |-> "plain"]
    /\ inflight' = inflight + 1
    /\ pc' = "await_plain"
    /\ UNCHANGED <<cfg, credMissing, stopped, fi, pi, processed, cur, results,
                   err1, disk, dirs, trace, report, exitCode, raw, normal, fill, client>>

\* a fallback that is sent again when it raises
ReturnPlainRetries ==
    /\ pc = "await_plain"
    /\ inflight' = inflight - 1
    /\ UNCHANGED <<att, last, err1>>
    /\ \/ \E b \in Bodies : Complete(b)
       \/ \E e \in Errors :
            IF att < 3
            THEN /\ pc' = "fallback"
                 /\ UNCHANGED <<cfg, credMissing, stopped, fi, pi, processed, cur,
                                results, disk, dirs, trace, report, exitCode, raw,
                                normal, fill, client>>
            ELSE OnPairError(e, << >>, "call") /\ UNCHANGED <<disk, dirs>>

\* the fallback request returns a body, or raises and its error reaches
\* the loop
ReturnPlain ==
    /\ pc = "await_plain"
    /\ inflight' = inflight - 1
    /\ UNCHANGED <<att, last, err1>>
    /\ \/ \E b \in Bodies : Complete(b)
       \/ \E e \in Errors :
            /\ OnPairError(e, << >>, "call")
            /\ UNCHANGED <<disk, dirs>>

\* ------------------------------------------------------------------------
\* The MCP wrapper after the loop: save_results_old_format and the printed
\* report (src/fix_vulnerable_code_mcp.py)
\* ------------------------------------------------------------------------

IsError(a) == "error" \in DOMAIN a

\* the fixed-code files save_results_old_format writes, in order
RECURSIVE SaveJobs(_, _, _)
SaveJobs(res, f, k) ==
    IF f > Len(res) THEN << >>
    ELSE IF k > Len(res[f].analyses) THEN SaveJobs(res, f + 1, 1)
    ELSE LET a == res[f].analyses[k]
         IN  (IF ~IsError(a) /\ Truthy(a.fixed_code)
              THEN <<[path |-> res[f].file_path, n |-> k,
                      loc |-> OutputLoc(res[f].file_path, k),
                      content |-> PyStr(a.fixed_code),
                      isStr |-> a.fixed_code.type = "str"]>>
              ELSE << >>)
             \o SaveJobs(res, f, k + 1)

SummaryJob ==
    [path |-> << >>, n |-> 0, loc |-> Under(cfg.outDir, <<"analysis_summary.json">>),
     content |-> <<"summary_json">>, isStr |-> TRUE]

\* the disk after the first k jobs were written
RECURSIVE AfterJobs(_, _, _)
AfterJobs(d, jobs, k) ==
    IF k = 0 THEN d
    ELSE PutFile(AfterJobs(d, jobs, k - 1), jobs[k].loc, jobs[k].content)

\* convert one file entry to the old report format (main, lines 195-219)
OldFormat(fr) ==
    [path |-> fr.file_path,
     prompt_results |->
        [i \in 1..Len(fr.analyses) |->
            LET a == fr.analyses[i]
            IN  IF IsError(a)
                THEN [prompt_index |-> i, error |-> a.error,
                      prompt_preview |-> a.prompt_name]
                ELSE [prompt_index |-> i, summary |-> a.description,
                      findings |-> a.findings, written |-> ~cfg.dryRun,
                      prompt_preview |-> a.prompt_used]]]

\* save_results_old_format: nothing in a dry run; else the files one after
\* the other and the summary last, the first failing write ends the run
\* with exit code 1 (main, lines 224-226)
\* the first k jobs are written and, unless w is "ok", job k+1 fails as w;
\* write_text raises before it opens the file when the data is no string
RunJobs(jobs, k, w) ==
    /\ (w = "ok") = (k = Len(jobs))
    /\ \A j \in 1..k : jobs[j].isStr
    /\ disk' = IF w = "write_fails" /\ jobs[k + 1].isStr
               THEN PutFile(AfterJobs(disk, jobs, k), jobs[k + 1].loc, << >>)
               ELSE AfterJobs(disk, jobs, k)
    /\ dirs' = (dirs \cup UNION {ParentDirs(jobs[i].loc) :
                    i \in 1..(IF w = "write_fails" THEN k + 1 ELSE k)})
               \ ExistingDirs
    /\ trace' = [i \in DOMAIN trace |->
                   IF \E j \in 1..k : /\ jobs[j].path = trace[i].path
                                      /\ jobs[j].n = trace[i].n
                   THEN [trace[i] EXCEPT !.wrote = TRUE]
                   ELSE trace[i]]
    /\ IF w = "ok"
       THEN pc' = "print" /\ UNCHANGED exitCode
       ELSE pc' = "done" /\ exitCode' = 1

SaveAll(jobs) == \E k \in 0..Len(jobs), w \in WriteEnds : RunJobs(jobs, k, w)

McpSave ==
    /\ pc = "save"
    /\ IF cfg.dryRun
       THEN /\ pc' = "print"
            /\ UNCHANGED <<disk, dirs, trace, exitCode>>
       ELSE SaveAll(SaveJobs(results, 1, 1) \o <<SummaryJob>>)
    /\ UNCHANGED <<cfg, credMissing, stopped, inflight, fi, pi, processed, cur, results, err1, att, last, report,
                   raw, normal, fill, client>>

\* main, lines 170-222: the report in the old format, exit code 0
McpPrint ==
    /\ pc = "print"
    /\ report' = [kind |-> "report",
                  results |-> [i \in DOMAIN results |-> OldFormat(results[i])]]
    /\ exitCode' = 0
    /\ pc' = "done"
    /\ UNCHANGED <<cfg, credMissing, stopped, inflight, fi, pi, processed, cur, results, err1, att, last, disk,
                   dirs, trace, raw, normal, fill, client>>

\* ------------------------------------------------------------------------
\* The MCP client (SecurityMCPClient of src/mcp_client.py) and the wrapper's
\* run_mcp_analysis (src/fix_vulnerable_code_mcp.py)
\* ------------------------------------------------------------------------

\* the tools the wrappers of call_tool name, lines 101-133
Tools == {"load_prompts", "read_local_files", "fetch_github_code",
          "analyze_security", "batch_analyze"}

\* how connect ends: the server script is missing (raised before the try),
\* building the stdio client raises (self.client is not assigned),
\* self.client.connect() raises (self.client is assigned), or it returns
ConnectEnds == {"no_script", "no_session", "refused", "ok"}

\* the message of the RuntimeError of list_tools and call_tool
NotConnected == "Not connected to server"

\* __init__: self.client = None, self.connected = False.
\* session is self.client ("none", or the state of the stdio client it
\* holds); opened, closes and sent count the sessions connected, the close()
\* calls and the requests handed to the session; op and raised are the last
\* method called and the message it raised ("" if it returned)
NewClient(at) ==
    [pc |-> at, made |-> TRUE, session |-> "none", connected |-> FALSE,
     opened |-> 0, closes |-> 0, sent |-> 0, op |-> "", raised |-> "",
     calls |-> 0, disconnects |-> 0, pending |-> FALSE]

\* no client object
NoClient == [NewClient("none") EXCEPT !.made = FALSE]

\* a method of the client was called and ended
Called(c, name, exc) == [c EXCEPT !.op = name, !.raised = exc, !.calls = @ + 1]

\* connect, lines 41-61
Connect(c, end) ==
    LET d == CASE end = "no_script"  -> c
               [] end = "no_session" -> c
               [] end = "refused"    -> [c EXCEPT !.session = "fresh"]
               [] end = "ok"         -> [c EXCEPT !.session = "open",
                                                  !.connected = TRUE,
                                                  !.opened = @ + 1]
    IN  Called(d, "connect", IF end = "ok" THEN "" ELSE end)

\* disconnect, lines 63-71: an exception of close() is logged, not raised,
\* and leaves connected as it was
Disconnect(c, closed) ==
    LET d == IF c.session # "none" /\ c.connected
             THEN IF closed
                  THEN [c EXCEPT !.session = "closed", !.connected = FALSE,
                                 !.closes = @ + 1]
                  ELSE [c EXCEPT !.closes = @ + 1]
             ELSE c
    IN  Called(d, "disconnect", "")

\* list_tools, lines 73-83
ListTools(c, answered) ==
    IF ~c.connected
    THEN Called(c, "list_tools", NotConnected)
    ELSE Called([c EXCEPT !.sent = @ + 1], "list_tools",
                IF answered THEN "" ELSE "tool")

CallToolUnguarded(c, name, answered) ==
    Called([c EXCEPT !.sent = @ + 1], name, IF answered THEN "" ELSE "tool")

\* call_tool, lines 85-99; the wrappers of lines 101-133 only build the
\* arguments and call it
CallTool(c, name, answered) ==
    IF ~c.connected
    THEN Called(c, name, NotConnected)
    ELSE Called([c EXCEPT !.sent = @ + 1], name,
                IF answered THEN "" ELSE "tool")

\* ------------------------------------------------------------------------
\* Specifications
\* ------------------------------------------------------------------------

NoFill == [template |-> << >>, path |-> << >>, code |-> << >>,
           cliSent |-> FALSE, cli |-> << >>, srvSent |-> FALSE, srv |-> << >>]

NoNormal == [stage |-> "idle", content |-> << >>,
             cli |-> Raised(""), srv |-> RaisedSrv("")]

Init ==
    /\ InitBatch
    /\ raw = << >>
    /\ normal = NoNormal
    /\ client = NoClient
    /\ fill = NoFill

Next ==
    \/ Start
    \/ SkipUnit
    \/ BeginUnit
    \/ RequestStructured
    \/ ReturnStructured
    \/ RequestPlain
    \/ ReturnPlain
    \/ EndUnit
    \/ EndLoop
    \/ McpSave
    \/ McpPrint

Spec == Init /\ [][Next]_vars

\* the (file, prompt) pairs of a batch whose termination is checked
LivePairs == 2

\* the batches whose termination is checked write outside the source folder
InitLive ==
    /\ Init
    /\ Len(cfg.files) * Len(cfg.prompts) <= LivePairs
    /\ cfg.outDir = "out"

\* the run is one thread that goes on, and every completion request returns
\* or raises (timeout=60 on each call)
SpecLive == InitLive /\ [][Next]_vars /\ WF_vars(Next)

\* The normalizers alone, on every raw response text
IdleBatch ==
    /\ cfg = [variant |-> "cli", files |-> << >>, prompts |-> << >>,
              catalog |-> "present", maxFiles |-> 0, dryRun |-> TRUE,
              outDir |-> "out"]
    /\ pc = "idle"
    /\ fi = 1
    /\ pi = 1
    /\ processed = 0
    /\ cur = << >>
    /\ results = << >>
    /\ err1 = ""
    /\ att = 0
    /\ last = NoRequest
    /\ disk = InitialDisk(<< >>)
    /\ dirs = {}
    /\ trace = << >>
    /\ report = NoReport
    /\ exitCode = -1
    /\ credMissing = FALSE
    /\ stopped = ""
    /\ inflight = 0

InitNorm ==
    /\ IdleBatch
    /\ raw \in RawTexts
    /\ normal = NoNormal
    /\ client = NoClient
    /\ fill = NoFill

\* content = response.choices[0].message.content or "{}"
Receive ==
    /\ normal.stage = "idle"
    /\ normal' = [normal EXCEPT !.stage = "received", !.content = ContentOf(raw)]
    /\ UNCHANGED <<batchVars, raw, fill, client>>

\* the normalizers of the command-line tool and of the server on the content
Normalize ==
    /\ normal.stage = "received"
    /\ normal' = [normal EXCEPT !.stage = "done",
                                !.cli = NormalizeCli(normal.content),
                                !.srv = NormalizeSrv(normal.content)]
    /\ UNCHANGED <<batchVars, raw, fill, client>>

NextNorm == Receive \/ Normalize

SpecNorm == InitNorm /\ [][NextNorm]_vars

\* ------------------------------------------------------------------------
\* Prompt filling alone, on every template, path and code
\* ------------------------------------------------------------------------

\* how many pieces a template is made of at most
MaxPieces == 3

TemplatePieces ==
    {<<"t">>, CodeMarker, BareMarker, CliPathMark, SrvPathMark, <<"{">>,
     <<"}">>}

RECURSIVE TemplatesOf(_)
TemplatesOf(n) ==
    IF n = 0 THEN {<< >>}
    ELSE LET shorter == TemplatesOf(n - 1)
         IN  shorter \cup {t \o piece : t \in shorter, piece \in TemplatePieces}

Templates == TemplatesOf(MaxPieces)

\* the code of a unit: plain, or holding a marker or a path placeholder;
\* the service loops also send a unit without content
Codes ==
    {<<"c">>, <<"c", "{", "}">>, CodeMarker, <<"c">> \o CliPathMark,
     <<"c">> \o SrvPathMark, << >>}

FilePaths == {<<"a", ".js">>, <<"d", "/", "b", ".ts">>}

InitFill ==
    /\ IdleBatch
    /\ raw = << >>
    /\ normal = NoNormal
    /\ client = NoClient
    /\ fill \in [template : Templates, path : FilePaths, code : Codes,
                 cliSent : {FALSE}, cli : {<< >>}, srvSent : {FALSE},
                 srv : {<< >>}]

\* the command-line tool builds the user content of its request; its loop
\* skips a unit without content
SendCli ==
    /\ ~fill.cliSent
    /\ fill.code # << >>
    /\ fill' = [fill EXCEPT !.cliSent = TRUE,
                            !.cli = UserContent(fill.template, fill.path, fill.code)]
    /\ UNCHANGED <<batchVars, raw, normal, client>>

\* the server builds the user content of its request
SendSrv ==
    /\ ~fill.srvSent
    /\ fill' = [fill EXCEPT !.srvSent = TRUE,
                            !.srv = FilledPrompt(fill.template, fill.path, fill.code)]
    /\ UNCHANGED <<batchVars, raw, normal, client>>

NextFill == SendCli \/ SendSrv

SpecFill == InitFill /\ [][NextFill]_vars

\* ------------------------------------------------------------------------
\* The MCP client alone: any sequence of calls on one client, and
\* run_mcp_analysis
\* ------------------------------------------------------------------------

\* calls made on one client, at most
MaxCalls == 4

InitClient ==
    /\ IdleBatch
    /\ raw = << >>
    /\ normal = NoNormal
    /\ fill = NoFill
    /\ client \in {NewClient("calls"), [NoClient EXCEPT !.pc = "new"]}

MayCall == client.pc = "calls" /\ client.calls < MaxCalls

DoConnect ==
    /\ MayCall
    /\ \E end \in ConnectEnds : client' = Connect(client, end)
    /\ UNCHANGED <<batchVars, raw, normal, fill>>

DoDisconnect ==
    /\ MayCall
    /\ \E closed \in BOOLEAN : client' = Disconnect(client, closed)
    /\ UNCHANGED <<batchVars, raw, normal, fill>>

DoListTools ==
    /\ MayCall
    /\ \E answered \in BOOLEAN : client' = ListTools(client, answered)
    /\ UNCHANGED <<batchVars, raw, normal, fill>>

DoCallTool ==
    /\ MayCall
    /\ \E name \in Tools, answered \in BOOLEAN :
          client' = CallTool(client, name, answered)
    /\ UNCHANGED <<batchVars, raw, normal, fill>>

\* run_mcp_analysis, line 39: the constructor raises ImportError when the
\* mcp package could not be imported (mcp_client.py lines 30-31), before
\* the try statement is entered
RunNew ==
    /\ client.pc = "new"
    /\ \E available \in BOOLEAN :
          client' = IF available
                    THEN NewClient("try")
                    ELSE [client EXCEPT !.pc = "unavailable",
                                        !.raised = "MCP package is not available"]
    /\ UNCHANGED <<batchVars, raw, normal, fill>>

RunConnectOutsideTry ==
    /\ client.pc = "try"
    /\ \E end \in ConnectEnds :
          LET c == Connect(client, end)
          IN  client' = IF end = "ok"
                        THEN [c EXCEPT !.pc = "source"]
                        ELSE [c EXCEPT !.pc = "raised", !.pending = TRUE]
    /\ UNCHANGED <<batchVars, raw, normal, fill>>

\* line 43, inside the try statement
RunConnect ==
    /\ client.pc = "try"
    /\ \E end \in ConnectEnds :
          LET c == Connect(client, end)
          IN  client' = IF end = "ok"
                        THEN [c EXCEPT !.pc = "source"]
                        ELSE [c EXCEPT !.pc = "finally", !.pending = TRUE]
    /\ UNCHANGED <<batchVars, raw, normal, fill>>

\* lines 48-61: the workflow first reads the units (mcp_client.py lines
\* 144 and 180); an exception leaves the try statement
RunSource ==
    /\ client.pc = "source"
    /\ \E name \in {"read_local_files", "fetch_github_code"}, answered \in BOOLEAN :
          LET c == CallTool(client, name, answered)
          IN  client' = IF c.raised = ""
                        THEN [c EXCEPT !.pc = "prompts"]
                        ELSE [c EXCEPT !.pc = "finally", !.pending = TRUE]
    /\ UNCHANGED <<batchVars, raw, normal, fill>>

\* mcp_client.py lines 147 and 183
RunLoadPrompts ==
    /\ client.pc = "prompts"
    /\ \E answered \in BOOLEAN :
          LET c == CallTool(client, "load_prompts", answered)
          IN  client' = IF c.raised = ""
                        THEN [c EXCEPT !.pc = "analyze"]
                        ELSE [c EXCEPT !.pc = "finally", !.pending = TRUE]
    /\ UNCHANGED <<batchVars, raw, normal, fill>>

\* mcp_client.py lines 151-162 and 187-198: the loop keeps the exception
\* of a pair as its outcome
RunAnalyze ==
    /\ client.pc = "analyze"
    /\ client.calls < MaxCalls
    /\ \E answered \in BOOLEAN :
          client' = CallTool(client, "analyze_security", answered)
    /\ UNCHANGED <<batchVars, raw, normal, fill>>

\* line 63: return results
RunReturn ==
    /\ client.pc = "analyze"
    /\ client' = [client EXCEPT !.pc = "finally"]
    /\ UNCHANGED <<batchVars, raw, normal, fill>>

\* lines 65-66: finally: await client.disconnect(), then the function
\* returns or the pending exception goes on
RunFinally ==
    /\ client.pc = "finally"
    /\ \E closed \in BOOLEAN :
          LET c == Disconnect(client, closed)
          IN  client' = [c EXCEPT !.disconnects = @ + 1,
                                  !.pc = IF c.pending THEN "raised" ELSE "returned"]
    /\ UNCHANGED <<batchVars, raw, normal, fill>>

NextClient ==
    \/ DoConnect
    \/ DoDisconnect
    \/ DoListTools
    \/ DoCallTool
    \/ RunNew
    \/ RunConnect
    \/ RunSource
    \/ RunLoadPrompts
    \/ RunAnalyze
    \/ RunReturn
    \/ RunFinally

SpecClient == InitClient /\ [][NextClient]_vars

\* ------------------------------------------------------------------------
\* Properties
\* ------------------------------------------------------------------------

NonEmptyUnit(u) == u.path # << >> /\ u.content # << >>

\* the units a batch is to report: the first maxFiles non-empty units
SpecRetained ==
    LET ne == SelectSeq(cfg.files, NonEmptyUnit)
    IN  SubSeq(ne, 1, Min(Len(ne), cfg.maxFiles))

\* the units the loop of the variant at hand goes through
LoopRetained ==
    IF cfg.variant = "cli" THEN SpecRetained
    ELSE SubSeq(cfg.files, 1, Min(Len(cfg.files), cfg.maxFiles))

\* the run ended before its loop: a credential is missing, the files
\* cannot be fetched, the command-line tool has no files, or the prompts
\* cannot be loaded
EarlyExit == stopped # ""

LoopDone == pc \in {"save", "print", "done"} /\ ~EarlyExit

Outcomes(fr) ==
    IF "prompt_results" \in DOMAIN fr THEN fr.prompt_results ELSE fr.analyses

PathOf(fr) == IF "path" \in DOMAIN fr THEN fr.path ELSE fr.file_path

Reported == pc = "done" /\ report.kind = "report"

\* the history entries of the pairs of unit path, in order
IsPairOf(path, n, t) == t.path = path /\ t.n = n

\* C1: a pair whose completion call or normalization raises becomes a
\* Failure outcome and the loop goes on: once the loop is over, every pair
\* of every retained unit was attempted, each unit has one outcome per
\* prompt, and an outcome is an error entry exactly for the pairs that
\* raised; the run never ends inside the loop.
C1_FailureIsolation ==
    /\ LoopDone =>
        /\ Len(trace) = Len(LoopRetained) * Len(cfg.prompts)
        /\ Len(results) = Len(LoopRetained)
        /\ \A f \in DOMAIN results :
            /\ PathOf(results[f]) = LoopRetained[f].path
            /\ Len(Outcomes(results[f])) = Len(cfg.prompts)
            /\ \A k \in DOMAIN Outcomes(results[f]) :
                LET t == trace[(f - 1) * Len(cfg.prompts) + k]
                IN  /\ IsPairOf(PathOf(results[f]), k, t)
                    /\ IsError(Outcomes(results[f])[k]) = ~t.ok
    /\ pc = "done" /\ ~EarlyExit /\ cfg.variant # "mcp" => exitCode = 0

C1_Witness ==
    /\ LoopDone
    /\ Len(results) = 2
    /\ Len(cfg.prompts) = 2
    /\ ~trace[1].ok /\ trace[2].ok /\ ~trace[3].ok /\ trace[4].ok
    /\ trace[1].cause = "call" /\ trace[3].cause = "normalize"

\* the outcome k of a file report is the result of prompt k of the catalog
OutcomeOfPrompt(o, k) ==
    /\ "prompt_index" \in DOMAIN o => o.prompt_index = k
    /\ "prompt_preview" \in DOMAIN o =>
          o.prompt_preview = IF cfg.variant = "mcp" /\ IsError(o)
                             THEN cfg.prompts[k].name
                             ELSE Preview(cfg.prompts[k].content)
    /\ "prompt_name" \in DOMAIN o => o.prompt_name = cfg.prompts[k].name
    /\ "prompt_used" \in DOMAIN o => o.prompt_used = Preview(cfg.prompts[k].content)

\* C2: in every printed report each file report has one outcome per prompt
\* of the catalog, and outcome k is the result of prompt k (prompt_index k,
\* 1-based), whatever mix of successes and failures occurred.
C2_OneOutcomePerPrompt ==
    Reported =>
        \A f \in DOMAIN report.results :
            LET os == Outcomes(report.results[f])
            IN  /\ Len(os) = Len(cfg.prompts)
                /\ \A k \in DOMAIN os : OutcomeOfPrompt(os[k], k)

C2_Witness ==
    /\ Reported
    /\ Len(report.results) >= 1
    /\ Len(cfg.prompts) = 2
    /\ LET os == Outcomes(report.results[1])
       IN  IsError(os[1]) /\ ~IsError(os[2]) /\ "prompt_index" \in DOMAIN os[2]

\* C3: the number of file reports is min(number of units whose path and
\* content are both non-empty, maxFiles).
C3_ReportCount ==
    Reported => Len(report.results) = Len(SpecRetained)

\* the keys of a success and of a failure
SummaryBearing(o) == "summary" \in DOMAIN o \/ "description" \in DOMAIN o

ExactlyOneVariant(o) ==
    /\ IsError(o) # SummaryBearing(o)
    /\ IsError(o) => DOMAIN o \cap {"findings", "written", "fixed_code"} = {}

\* C4: every outcome recorded for a pair either carries an error and no
\* summary, findings or written, or is a summary-bearing success without an
\* error; none carries both, none carries neither.
C4_ExactlyOneVariant ==
    /\ \A k \in DOMAIN cur : ExactlyOneVariant(cur[k])
    /\ \A f \in DOMAIN results :
        \A k \in DOMAIN Outcomes(results[f]) :
            ExactlyOneVariant(Outcomes(results[f])[k])
    /\ \A f \in DOMAIN report.results :
        \A k \in DOMAIN Outcomes(report.results[f]) :
            ExactlyOneVariant(Outcomes(report.results[f])[k])

C4_Witness ==
    /\ Reported
    /\ cfg.variant = "mcp"
    /\ Len(report.results) = 1
    /\ Len(cfg.prompts) = 2
    /\ IsError(report.results[1].prompt_results[1])
    /\ SummaryBearing(report.results[1].prompt_results[2])

AllOutcomes ==
    {cur[k] : k \in DOMAIN cur}
    \cup UNION {{Outcomes(results[f])[k] : k \in DOMAIN Outcomes(results[f])} :
                   f \in DOMAIN results}
    \cup UNION {{Outcomes(report.results[f])[k] :
                   k \in DOMAIN Outcomes(report.results[f])} :
                   f \in DOMAIN report.results}

\* C6: in a dry run the disk stays as it was before the run, no directory
\* is created, whatever fixed code the model returns, and every outcome that
\* reports written reports false.
C6_DryRunWritesNothing ==
    cfg.dryRun =>
        /\ disk = InitialDisk(cfg.files)
        /\ dirs = {}
        /\ \A o \in AllOutcomes : "written" \in DOMAIN o => ~o.written

C6_Witness ==
    /\ cfg.dryRun
    /\ cfg.variant = "cli"
    /\ Reported
    /\ Len(trace) >= 1
    /\ trace[1].ok /\ trace[1].fixed = <<"x">>
    /\ ~report.results[1].prompt_results[1].written

\* the history entry of outcome k of file report f
TraceOf(f, k) == trace[(f - 1) * Len(cfg.prompts) + k]

\* C7: in the final report a Success is written exactly if the fixed-code
\* file of its pair was written during the run; a pair whose directory or
\* file cannot be created stays a Success, and the batch goes on to print
\* its report.
C7_WrittenIsAccurate ==
    /\ Reported =>
        \A f \in DOMAIN report.results :
            \A k \in DOMAIN Outcomes(report.results[f]) :
                LET o == Outcomes(report.results[f])[k]
                IN  "written" \in DOMAIN o => o.written = TraceOf(f, k).wrote
    /\ \A i \in DOMAIN trace :
          trace[i].cause \in {"mkdir_fails", "write_fails"} => trace[i].ok
    /\ pc = "done" /\ ~EarlyExit => exitCode = 0

\* <output dir>/<original directory>/<stem>_prompt_<n><extension>: the
\* extension is the last token of a path, the directory and the stem are the
\* tokens before it
ExpectedLoc(path, n) ==
    <<cfg.outDir, "/">> \o SubSeq(path, 1, Len(path) - 1)
    \o <<"_prompt_", ToString(n), path[Len(path)]>>

\* the wrapper saved every file and is about to print, or has printed
SaveOver == cfg.variant = "cli" \/ pc = "print" \/ Reported

\* location loc holds what it held before the run, or nothing
Untouched(loc) ==
    \/ loc \notin DOMAIN disk
    \/ /\ loc \in DOMAIN InitialDisk(cfg.files)
       /\ disk[loc] = InitialDisk(cfg.files)[loc]

\* C8: outside a dry run the fixed code of a Success with non-empty
\* fixed_code is in <output dir>/<directory>/<stem>_prompt_<n><extension>,
\* n the 1-based position of the prompt; for a Failure and for a Success
\* with empty fixed_code there is no file at that place.
C8_OutputPath ==
    \A i \in DOMAIN trace :
        LET t == trace[i]
            loc == ExpectedLoc(t.path, t.n)
        IN  /\ t.ok /\ t.code /\ ~cfg.dryRun /\ SaveOver =>
                loc \in DOMAIN disk /\ disk[loc] = t.fixed
            /\ ~t.ok \/ ~t.code => Untouched(loc)

\* C9: whatever the output directory, every unit's original file has its
\* content at every point of the run, and every file the run creates or
\* changes has a derived name (or is the wrapper's summary).
C9_OriginalsUnchanged ==
    /\ \A i \in DOMAIN cfg.files :
          disk[Under("src", cfg.files[i].path)] = cfg.files[i].content
    /\ \A loc \in DOMAIN disk :
          ~Untouched(loc) =>
              \/ loc = SummaryJob.loc
              \/ \E i \in DOMAIN cfg.files, n \in 1..Len(cfg.prompts) :
                    loc = ExpectedLoc(cfg.files[i].path, n)

\* C10: the normalizers never raise: on every raw response text they
\* return a record with summary, findings and fixed_code.
C10_NormalizerNeverRaises ==
    normal.stage = "done" => ~normal.cli.raised /\ ~normal.srv.raised

\* the raw text parses, as it is, to a JSON object
IsJsonObject(t) == JsonLoads(t).ok /\ JsonLoads(t).val.type = "dict"

\* the fields of a parsed object with the defaults applied and nothing else
DirectCli(payload) ==
    [fixed_code |-> PyStr(DictGet(payload, "fixed_code", StrVal(<< >>))),
     summary |-> PyStr(DictGet(payload, "summary", StrVal(<< >>))),
     findings |-> FindingsOf(DictGet(payload, "findings", ListVal(<< >>)))]

DirectSrv(data) ==
    [fixed_code |-> DictGet(data, "fixed_code", StrVal(<< >>)),
     summary |-> DictGet(data, "summary", StrVal(<< >>)),
     findings |-> DictGet(data, "findings", ListVal(<< >>)),
     severity |-> DictGet(data, "severity", StrVal(<<"Medium">>)),
     vulnerability_type |->
         DictGet(data, "vulnerability_type", StrVal(<<"Unknown">>))]

SameFields(r, d) == ~r.raised /\ \A f \in DOMAIN d : r[f] = d[f]

\* C11: on a raw text that is a valid JSON object the normalizers return
\* the fields of the direct parse with the defaults applied: fence
\* extraction, brace scan and code-block fallback change nothing.
C11_DirectParseUnchanged ==
    normal.stage = "done" /\ IsJsonObject(raw) =>
        /\ SameFields(normal.cli, DirectCli(JsonLoads(raw).val))
        /\ SameFields(normal.srv, DirectSrv(JsonLoads(raw).val))

\* the values X of the round trip and their JSON texts
FenceValues == {StrVal(<<"x">>), StrVal(<<"}", "x">>), StrVal(<< >>), NullVal}

JsonText(v) == IF v.type = "str" THEN Quoted(v.s) ELSE <<"null">>

\* a json fence around the object {"fixed_code": X}, prose around it
FencedCode(v, n, post) ==
    ProseLines(n)
    \o Fenced(<<"js", "on">>, <<"{">> \o Member("fixed_code", JsonText(v)) \o <<"}">>)
    \o post

\* C12: a response that is a json fence around {"fixed_code": X}, with or
\* without prose around it, normalizes to fixed_code = X, for every X.
C12_FenceRoundTrip ==
    normal.stage = "done" =>
        \A v \in FenceValues, n \in 0..MaxProse, post \in Trailers :
            raw = FencedCode(v, n, post) =>
                /\ ~normal.cli.raised /\ normal.cli.fixed_code = PyStr(v)
                /\ ~normal.srv.raised /\ normal.srv.fixed_code = v

\* no structured parse succeeds: neither the text (unfenced, in the
\* command-line tool) nor its brace span is JSON
NoParse(text) ==
    /\ ~JsonLoads(text).ok
    /\ BraceSpan(text) = << >> \/ ~JsonLoads(BraceSpan(text)).ok

NoParseCli(content) == NoParse(UnfenceStripped(Strip(content)))
NoParseSrv(content) == NoParse(content)

\* the first fenced block of a text: where its label ends (the label is the
\* word that follows the opening fence) and where it closes
LabelEnd(t, a) ==
    CHOOSE j \in (a + 1)..(Len(t) + 1) :
        /\ j = Len(t) + 1 \/ IsWs(t[j]) \/ t[j] = "~~~"
        /\ \A i \in (a + 1)..(j - 1) : ~IsWs(t[i]) /\ t[i] # "~~~"

BlockLabel(t) ==
    SubSeq(t, FindFirst(t, "~~~", 1) + 1, LabelEnd(t, FindFirst(t, "~~~", 1)) - 1)

BlockBody(t) ==
    SubSeq(t, LabelEnd(t, FindFirst(t, "~~~", 1)),
           FindFirst(t, "~~~", LabelEnd(t, FindFirst(t, "~~~", 1))) - 1)

\* the fixed code the unstructured stage is to return: the trimmed content
\* of the first block when its label is js or ts or it has none, the whole
\* trimmed text when there is no block; a block with another label either
\* counts as a block or does not
ExpectedFallback(t) ==
    IF ~HasCodeBlock(t) THEN {Strip(t)}
    ELSE IF BlockLabel(t) \in {<< >>, <<"js">>, <<"ts">>}
    THEN {Strip(BlockBody(t))}
    ELSE {Strip(BlockBody(t)), Strip(t)}

\* C13: when no structured parse succeeds the normalizers return an empty
\* summary, no findings, and as fixed_code the trimmed content of the
\* first fenced block (label js or ts, or none), or the whole trimmed text
\* when there is no block.
C13_UnstructuredFallback ==
    normal.stage = "done" =>
        /\ NoParseCli(normal.content) =>
            /\ ~normal.cli.raised
            /\ normal.cli.summary = << >> /\ normal.cli.findings = << >>
            /\ normal.cli.fixed_code \in ExpectedFallback(normal.content)
        /\ NoParseSrv(normal.content) =>
            /\ ~normal.srv.raised
            /\ normal.srv.summary = StrVal(<< >>)
            /\ normal.srv.findings = ListVal(<< >>)
            /\ normal.srv.fixed_code.type = "str"
            /\ normal.srv.fixed_code.s \in ExpectedFallback(normal.content)

\* no completion request was sent during the run
NoRequestSent == att = 0 /\ last = NoRequest /\ trace = << >>

\* C14: a run of the command-line tool or of the MCP wrapper over zero
\* units ends with exit code 0 and a report that has no results and the
\* "no files matched" marker, and sends no completion request.
C14_ZeroUnits ==
    /\ pc = "done"
    /\ stopped \notin {"credentials", "fetch"}
    /\ cfg.files = << >>
    /\ cfg.variant \in {"cli", "mcp"}
    =>
        /\ report.kind = "no_files"
        /\ report.results = << >>
        /\ exitCode = 0
        /\ NoRequestSent

\* the run ended with a fatal error: exit code 1, or the error text of the
\* server's tool, and no report of results
EndedFatal ==
    /\ exitCode = 1 \/ report.kind = "error"
    /\ report.kind # "report"

\* C15: when the prompts directory does not exist or holds no prompt, the
\* run that loads the catalog ends with a fatal error and sends no
\* completion request, whatever the units are. (The command-line tool does
\* not load the catalog when there are no units.)
C15_EmptyCatalogIsFatal ==
    /\ pc = "done"
    /\ cfg.catalog = "missing" \/ cfg.prompts = << >>
    /\ stopped \notin {"credentials", "fetch", "no_files"}
    => EndedFatal /\ NoRequestSent

\* C16: a batch run with zero prompts over a non-empty sequence of units
\* reports one file per unit the loop retains, in order, each with an empty
\* sequence of outcomes, and sends no completion request. (Which units a
\* loop retains is the matter of C3 and C20; the command-line tool never
\* runs a batch with zero prompts, its loader raises.)
C16_ZeroPrompts ==
    Reported /\ cfg.prompts = << >> /\ cfg.files # << >> =>
        /\ Len(report.results) = Len(LoopRetained)
        /\ \A f \in DOMAIN report.results :
              /\ PathOf(report.results[f]) = LoopRetained[f].path
              /\ Outcomes(report.results[f]) = << >>
        /\ NoRequestSent

C16_Witness ==
    /\ Reported
    /\ cfg.prompts = << >>
    /\ Len(report.results) = 2
    /\ report.results[2].analyses = << >>

\* ---------------------------------------------------------------------------
\* C17: a command-line run ends with exit code 2 exactly when a required
\* credential (the API key, or the GitHub token in GitHub mode) is missing,
\* and then it stopped before any unit was fetched, any prompt loaded and
\* any completion request issued; it ends with 0 on success (zero files
\* included) and with 1 for a runtime failure.
\* The command-line tool does this. The wrapper checks only the API key:
\* in GitHub mode without a token it starts the server, the fetcher raises
\* and the run ends with 1.
ExitOnCredentials ==
    /\ exitCode = 2 <=> credMissing
    /\ exitCode = 2 => stopped = "credentials" /\ NoRequestSent

C17_ExitCodes ==
    pc = "done" /\ cfg.variant \in {"cli", "mcp"} =>
        /\ exitCode \in {0, 1, 2}
        /\ ExitOnCredentials
        /\ stopped = "no_files" => exitCode = 0
        /\ stopped \in {"fetch", "prompts"} => exitCode = 1

\* ---------------------------------------------------------------------------
\* C18: for each (file, prompt) pair the completion client first sends one
\* request with the structured response format; only if that request raises
\* does it send exactly one more, for the same pair and without the format;
\* if the second raises too, the error reaches the caller. A pair causes one
\* or two requests, never more.
\* The pairs are those the client is called for.
FirstRequest ==
    /\ pc = "prompt"
    /\ last' = [f |-> fi, p |-> pi, mode |-> "json"]
    /\ <<last.f, last.p>> # <<fi, pi>>
    /\ att' = 1

SecondRequest ==
    /\ pc = "fallback"
    /\ last.mode = "json"
    /\ last' = [last EXCEPT !.mode = "plain"]
    /\ err1 \in Errors
    /\ att = 1 /\ att' = 2

\* the pair that ends in this step: its requests, and what reached the loop
PairEnds ==
    LET e == trace'[Len(trace')]
    IN  /\ <<last'.f, last'.p>> = <<fi, pi>>
        /\ att' \in {1, 2}
        /\ att' = 2 <=> last'.mode = "plain"
        /\ att' = 1 => err1' = ""
        /\ e.cause = "call" =>
              /\ last'.mode = "plain"
              /\ ~e.ok
              /\ IsError(cur'[Len(cur')])
              /\ pc' = "prompt" /\ pi' = pi + 1

C18_TwoRequests ==
    [][/\ last' # last => FirstRequest \/ SecondRequest
       /\ att' # att => last' # last
       /\ Len(trace') > Len(trace) => PairEnds]_vars

C18_Witness ==
    /\ trace # << >>
    /\ trace[Len(trace)].cause = "call"
    /\ att = 2
    /\ last.mode = "plain"
    /\ pc = "prompt"

\* ---------------------------------------------------------------------------
\* C19: every Success outcome carries a severity that is one of Low, Medium,
\* High, Critical, and it is Medium when the parsed object has no severity;
\* an absent summary becomes the empty string, absent findings the empty
\* sequence and an absent vulnerability_type "Unknown".
\* The server's normalizer has the four defaults but takes any severity the
\* object gives; the result of the command-line tool has no severity and no
\* vulnerability_type.
Severities ==
    {StrVal(<<"Low">>), StrVal(<<"Medium">>), StrVal(<<"High">>),
     StrVal(<<"Critical">>)}

\* the fields of result r that are absent from the object d have their
\* defaults
DefaultsOf(r, d) ==
    /\ ~DictHas(d, "severity") => r.severity = StrVal(<<"Medium">>)
    /\ ~DictHas(d, "summary") => r.summary = StrVal(<< >>)
    /\ ~DictHas(d, "findings") => r.findings = ListVal(<< >>)
    /\ ~DictHas(d, "vulnerability_type") =>
          r.vulnerability_type = StrVal(<<"Unknown">>)

SeverityOf(r) ==
    /\ "severity" \in DOMAIN r
    /\ r.severity \in Severities

C19_SeverityAndDefaults ==
    normal.stage = "done" =>
        /\ ~normal.srv.raised =>
              /\ SeverityOf(normal.srv)
              /\ DefaultsOf(normal.srv, ParseSrv(normal.content))
        /\ ~normal.cli.raised => SeverityOf(normal.cli)

\* ---------------------------------------------------------------------------
\* C20: the file reports of a batch are, in the original order, the first
\* maxFiles units among those whose path and content are both non-empty: an
\* empty unit has no file report and no Failure outcome and takes none of
\* the maxFiles slots.
\* The command-line tool does this. The service loops take files[:max_files]
\* as fetched: an empty unit takes a slot and gets a file report.
PathsOf(frs) == [i \in DOMAIN frs |-> PathOf(frs[i])]

UnitPaths(units) == [i \in DOMAIN units |-> units[i].path]

C20_FirstNonEmptyUnits ==
    /\ Reported => PathsOf(report.results) = UnitPaths(SpecRetained)
    /\ LoopDone =>
          \A i \in DOMAIN trace :
              \E j \in DOMAIN SpecRetained : SpecRetained[j].path = trace[i].path

\* ---------------------------------------------------------------------------
\* Prompt filling as specified: one pass over the template in which every
\* {CODE HERE} becomes the code, every bare {} becomes the code if bare
\* holds, and every path placeholder becomes the path; what is inserted is
\* not scanned again
RECURSIVE SubstituteFrom(_, _, _, _, _, _)
SubstituteFrom(t, path, code, pathMark, bare, i) ==
    IF i > Len(t) THEN << >>
    ELSE IF MatchesAt(t, CodeMarker, i)
    THEN code \o SubstituteFrom(t, path, code, pathMark, bare, i + Len(CodeMarker))
    ELSE IF bare /\ MatchesAt(t, BareMarker, i)
    THEN code \o SubstituteFrom(t, path, code, pathMark, bare, i + Len(BareMarker))
    ELSE IF MatchesAt(t, pathMark, i)
    THEN path \o SubstituteFrom(t, path, code, pathMark, bare, i + Len(pathMark))
    ELSE <<t[i]>> \o SubstituteFrom(t, path, code, pathMark, bare, i + 1)

\* bare {} markers count only in a template without {CODE HERE}
SpecFilled(t, path, code, pathMark) ==
    SubstituteFrom(t, path, code, pathMark, ~Contains(t, CodeMarker), 1)

HasCodeMarker(t) == Contains(t, CodeMarker) \/ Contains(t, BareMarker)

\* a code that holds no marker and no path placeholder
PlainCode(code) ==
    /\ ~Contains(code, <<"{">>)
    /\ ~Contains(code, CliPathMark)
    /\ ~Contains(code, SrvPathMark)

\* C21: in a template with at least one {CODE HERE} marker, filling replaces
\* every {CODE HERE} with the code and leaves the bare {} of the template as
\* they are; bare {} are replaced with the code only in a template without
\* {CODE HERE}. Stated for a code that holds no marker itself.
\* Both fillers run the two replacements one after the other,
\* unconditionally.
C21_CodeMarkerFirst ==
    HasCodeMarker(fill.template) /\ PlainCode(fill.code) =>
        /\ fill.cliSent =>
              fill.cli = SpecFilled(fill.template, fill.path, fill.code, CliPathMark)
        /\ fill.srvSent =>
              fill.srv = SpecFilled(fill.template, fill.path, fill.code, SrvPathMark)

\* the template text, with or without its path placeholder replaced,
\* followed by the code (a blank line may separate them)
TemplateThenCode(sent, t, path, code, pathMark) ==
    \E head \in {t, Replace(t, pathMark, path)} :
        \E sep \in {<< >>, <<"nl", "nl">>} : sent = head \o sep \o code

\* C22: for a template with neither {CODE HERE} nor {}, the text sent to
\* the endpoint is the template text followed by the code verbatim; for
\* every pair the text sent contains the code.
\* The command-line tool appends the code. The server sends the filled
\* template alone: without a marker the request holds no code.
C22_CodeNeverDropped ==
    /\ fill.cliSent =>
          /\ Contains(fill.cli, fill.code)
          /\ ~HasCodeMarker(fill.template) =>
                TemplateThenCode(fill.cli, fill.template, fill.path, fill.code,
                                 CliPathMark)
    /\ fill.srvSent =>
          /\ Contains(fill.srv, fill.code)
          /\ ~HasCodeMarker(fill.template) =>
                TemplateThenCode(fill.srv, fill.template, fill.path, fill.code,
                                 SrvPathMark)

\* the text sent for template t has its path placeholder replaced
PathReplaced(sent, t, path, pathMark) ==
    Contains(t, pathMark) => Contains(sent, path) /\ ~Contains(sent, pathMark)

\* C23: for every template, with or without a code marker, the text sent to
\* the endpoint has the path placeholder replaced by the unit's file path.
\* Stated for a code that holds no placeholder itself.
\* The command-line tool sends the unfilled template when it has no code
\* marker, so its placeholder stays.
C23_PathReplaced ==
    PlainCode(fill.code) =>
        /\ fill.cliSent =>
              PathReplaced(fill.cli, fill.template, fill.path, CliPathMark)
        /\ fill.srvSent =>
              PathReplaced(fill.srv, fill.template, fill.path, SrvPathMark)

\* the template with its markers replaced in one pass, whichever of the
\* bare {} markers count
FilledOnce(sent, t, path, code, pathMark) ==
    \/ sent = SpecFilled(t, path, code, pathMark)
    \/ sent = SubstituteFrom(t, path, code, pathMark, TRUE, 1)

\* C24: prompt filling is a single substitution that does not scan the
\* inserted code again: for every template with a code marker and every
\* code, also one that holds {}, {CODE HERE} or the path placeholder, the
\* filled prompt is the template with each marker replaced by the code
\* verbatim, once per marker.
\* Both fillers chain three replace calls: the second and the third scan
\* the code the first one inserted.
C24_SingleSubstitution ==
    HasCodeMarker(fill.template) =>
        /\ fill.cliSent =>
              FilledOnce(fill.cli, fill.template, fill.path, fill.code, CliPathMark)
        /\ fill.srvSent =>
              FilledOnce(fill.srv, fill.template, fill.path, fill.code, SrvPathMark)

\* ---------------------------------------------------------------------------
\* request a comes before request b in file-major, prompt-minor order (the
\* fallback of a pair follows its first request)
InOrder(a, b) ==
    \/ a.f < b.f
    \/ a.f = b.f /\ a.p < b.p
    \/ a.f = b.f /\ a.p = b.p /\ a.mode = "json" /\ b.mode = "plain"

\* C25: at most one completion request is in flight at any time, and the
\* requests are sent in file-major, prompt-minor order: a request is sent
\* only when every earlier one has returned or raised, and each request
\* comes after the one before it in that order.
C25_OneAtATime ==
    [][/\ inflight' <= 1
       /\ last' # last => inflight = 0 /\ inflight' = 1 /\ InOrder(last, last')]_vars

C25_Witness ==
    /\ inflight = 1
    /\ last = [f |-> 2, p |-> 2, mode |-> "plain"]
    /\ Len(trace) = 3

\* ---------------------------------------------------------------------------
\* a pair is under way: its first request was sent, its outcome is not
\* recorded yet
PairUnderWay == pc \in {"await_json", "fallback", "await_plain"}

\* the most completion requests that can have been sent so far: two for
\* each pair that ended, and those of the pair under way
RequestsSent == 2 * Len(trace) + (IF PairUnderWay THEN att ELSE 0)

Started == pc \notin {"start", "idle"} /\ ~EarlyExit

\* the enumeration is over and the report is out; the wrapper, which saves
\* before it prints, ended
EnumerationEnded ==
    /\ pc = "done"
    /\ Len(results) = Len(LoopRetained)
    /\ Len(trace) = Len(LoopRetained) * Len(cfg.prompts)
    /\ cfg.variant # "mcp" => Reported /\ Len(report.results) = Len(LoopRetained)

\* C26: provided every completion request returns or raises, a started
\* batch reaches the end of its enumeration and emits its report, having
\* sent at most 2 x (retained files) x (prompts) completion requests; no
\* pair is tried beyond its one fallback.
\* The report is that of the command-line tool and of the server's batch;
\* the wrapper saves its results before it prints and ends with exit code 1
\* when saving raises.
C26_BatchTerminates ==
    /\ [](RequestsSent <= 2 * Len(LoopRetained) * Len(cfg.prompts))
    /\ [][inflight' > inflight => att' \in {1, 2} /\ PairUnderWay']_vars
    /\ Started ~> EnumerationEnded

C26_Witness ==
    /\ EnumerationEnded
    /\ cfg.variant = "cli"
    /\ Len(LoopRetained) * Len(cfg.prompts) = 2
    /\ \A i \in DOMAIN trace : trace[i].cause = "call"

\* ---------------------------------------------------------------------------
\* the fixed_code the normalizers take from the parsed object, before the
\* fallback
ObjectFixedCli(content) ==
    PyStr(DictGet(CoerceJson(content), "fixed_code", StrVal(<< >>)))

ObjectFixedSrv(content) == DictGet(ParseSrv(content), "fixed_code", StrVal(<< >>))

\* a text that is blank, or whose first fenced block is blank
BlankCode(t) ==
    \/ Strip(t) = << >>
    \/ HasCodeBlock(t) /\ Strip(BlockBody(t)) = << >>

\* C27: whenever the fixed_code taken from the parsed object is empty and
\* the response is not, the normalizers replace it by the trimmed content of
\* the first fenced block of the response, or by the whole trimmed response
\* when it has no block, also when the JSON parse succeeded; a result has an
\* empty fixed_code only if the response is blank or its first block is;
\* an empty body, taken as "{}", gives the fixed_code "{}".
\* The fallback runs as described, but on a block labelled json it returns
\* the rest of the label with the content (see C13).
C27_EmptyFixedFallsBack ==
    normal.stage = "done" =>
        /\ ~normal.cli.raised =>
              /\ ObjectFixedCli(normal.content) = << >> =>
                    normal.cli.fixed_code \in ExpectedFallback(normal.content)
              /\ normal.cli.fixed_code = << >> => BlankCode(normal.content)
              /\ raw = << >> => normal.cli.fixed_code = <<"{", "}">>
        /\ ~normal.srv.raised =>
              /\ ~Truthy(ObjectFixedSrv(normal.content)) =>
                    /\ normal.srv.fixed_code.type = "str"
                    /\ normal.srv.fixed_code.s \in ExpectedFallback(normal.content)
              /\ ~Truthy(normal.srv.fixed_code) => BlankCode(normal.content)
              /\ raw = << >> => normal.srv.fixed_code = StrVal(<<"{", "}">>)

\* ---------------------------------------------------------------------------
\* the pairs of the run (the paths of its units are pairwise distinct)
PairsOfRun == {<<i, n>> : i \in DOMAIN cfg.files, n \in DOMAIN cfg.prompts}

PairLoc(pr) == OutputLoc(cfg.files[pr[1]].path, pr[2])

\* C28: in a run over units with pairwise distinct paths, two distinct
\* (unit path, prompt index) pairs never derive the same output path, and a
\* fixed-code file written during the run is not overwritten by a later
\* write of the run: it holds the fixed code of its pair.
C28_DistinctOutputs ==
    /\ \A a, b \in PairsOfRun : a # b => PairLoc(a) # PairLoc(b)
    /\ \A i \in DOMAIN trace :
          trace[i].wrote =>
              LET loc == OutputLoc(trace[i].path, trace[i].n)
              IN  loc \in DOMAIN disk /\ disk[loc] = trace[i].fixed

C28_Witness ==
    /\ pc = "done"
    /\ cfg.files = <<SrcA, SrcSuffix>>
    /\ Len(trace) = 4
    /\ \A i \in DOMAIN trace : trace[i].wrote

\* ------------------------------------------------------------------------
\* The MCP client's connected flag and run_mcp_analysis's disconnect
\* ------------------------------------------------------------------------

\* the step called list_tools, call_tool or a wrapper built on call_tool
ToolStep == client'.calls > client.calls /\ client'.op \in Tools \cup {"list_tools"}

\* the step called disconnect and its close() returned
ClosedSession == client'.op = "disconnect" /\ client'.closes > client.closes
                 /\ client'.session = "closed"

\* C29: connected is false on a new client; it becomes true only in a step
\* in which connect returned without raising; it is false after every
\* disconnect that closed the session and becomes false in no other step;
\* list_tools, call_tool and the wrappers, called while connected is false,
\* raise "Not connected to server" and hand no request to the session.
C29_ConnectedState ==
    /\ [](client.made /\ client.calls = 0 => ~client.connected)
    /\ [][/\ ~client.connected /\ client'.connected =>
                /\ client'.calls > client.calls
                /\ client'.op = "connect" /\ client'.raised = ""
          /\ ClosedSession => ~client'.connected
          /\ client.connected /\ ~client'.connected => ClosedSession
          /\ ToolStep /\ ~client.connected =>
                /\ client'.raised = NotConnected
                /\ client'.sent = client.sent]_vars

\* a tool was refused on a client that was connected and then disconnected
C29_Witness ==
    /\ client.pc = "calls"
    /\ client.op \in Tools
    /\ client.raised = NotConnected
    /\ client.opened = 1
    /\ client.session = "closed"
    /\ client.sent = 0

RunEnded == client.pc \in {"returned", "raised"}

RunUnderWay == client.pc \in {"try", "source", "prompts", "analyze", "finally"}

\* C30: on each way out of run_mcp_analysis's try statement (the analysis
\* returned, connect raised, the analysis raised) disconnect has been called
\* exactly once, and not before the finally clause; a disconnect on a client
\* that never connected calls no close() and raises nothing (the exception
\* that was pending stays the one that goes on); when close() returned, the
\* client is not connected once run_mcp_analysis has returned or raised.
C30_DisconnectOnce ==
    /\ [](RunEnded => client.disconnects = 1)
    /\ [](RunUnderWay => client.disconnects = 0)
    /\ [](RunEnded /\ client.session = "closed" => ~client.connected)
    /\ [][client'.op = "disconnect" /\ client'.calls > client.calls
          /\ client.opened = 0 =>
                /\ client'.closes = client.closes
                /\ client'.raised = ""
                /\ client'.pending = client.pending
                /\ client'.session = client.session]_vars

\* connect raised after the stdio client was built: the finally clause
\* called disconnect once, on a client that never connected
C30_Witness ==
    /\ client.pc = "raised"
    /\ client.session = "fresh"
    /\ client.opened = 0
    /\ client.closes = 0
    /\ client.disconnects = 1

====
